---- MODULE Spec2Model ----
(***************************************************************************)
(* Model of the boolean retrieval engine: the indexer (src/src/indexer.cpp) *)
(* that builds and persists the direct and inverted indexes, and the        *)
(* searcher (src/src/searching.cpp) that loads them and evaluates boolean   *)
(* queries with a stack machine.                                            *)
(*                                                                          *)
(* A std::string is a sequence of bytes (naturals 0..255); a file is a      *)
(* sequence of bytes; a std::vector is a sequence.                          *)
(***************************************************************************)
EXTENDS Integers, Sequences, FiniteSets, TLC

VARIABLES
    pc,               \* control position of the running program
    corpus,           \* lines of data/corpus.jsonl consumed so far
    direct_index,     \* indexer: std::vector<DirectIndex>
    inverted_index,   \* indexer: std::vector<InvertedIndex>
    doc_ids_set,      \* indexer: std::set<std::string>
    total_tokens,     \* indexer counters
    total_docs,
    total_terms,
    direct_file,      \* data/direct_index.bin:   [written, bytes]
    inverted_file,    \* data/inverted_index.bin: [written, bytes]
    infile,           \* searcher: the std::ifstream being decoded [pos, eof, fail]
    s_direct_index,   \* searcher: std::vector<DirectIndex>
    s_inverted_index, \* searcher: std::vector<InvertedIndex>
    query,            \* parse_query / boolean_search argument
    lex,              \* parse_query locals [i, token, tokens, in_quotes]
    tokens,           \* boolean_search: the parsed token vector
    tpos,             \* boolean_search: index of the next token of the range-for
    stack,            \* boolean_search: std::vector<std::vector<std::string>>
    lastop,           \* boolean_search: locals of the last loop iteration
    result,           \* searcher main: the vector boolean_search returned
    output            \* searcher main: what the last query printed

builderVars == <<corpus, direct_index, inverted_index, doc_ids_set,
                 total_tokens, total_docs, total_terms>>
fileVars    == <<direct_file, inverted_file>>
loaderVars  == <<infile, s_direct_index, s_inverted_index>>
parseVars   == <<query, lex>>
evalVars    == <<tokens, tpos, stack, lastop, result, output>>
vars == <<pc, builderVars, fileVars, loaderVars, parseVars, evalVars>>

(***************************************************************************)
(* Bounds of the model.                                                    *)
(***************************************************************************)
MaxDocs        == 2   \* corpus lines read by one indexer run
MaxRecords     == 2   \* records of an index table handed to the codec
MaxGarbage     == 1   \* largest allocatable value of an indeterminate size
AllocLimit     == 256 \* strings of this many bytes or more cannot be allocated
MaxQueryLen    == 4   \* characters of a query handed to parse_query
MaxQueryTokens == 3   \* words of a query line of the query file
MaxCut         == 3   \* bytes a truncation takes off the end of an index file

(***************************************************************************)
(* Strings used as inputs.                                                 *)
(***************************************************************************)
SP   == <<32>>                 \* " "
cat  == <<99, 97, 116>>        \* "cat"
dog  == <<100, 111, 103>>      \* "dog"
bird == <<98, 105, 114, 100>>  \* "bird"
emu  == <<101, 109, 117>>      \* "emu", never indexed
d1   == <<100, 49>>            \* "d1"
d2   == <<100, 50>>            \* "d2"
d3   == <<100, 51>>            \* "d3"

Min(a, b) == IF a < b THEN a ELSE b

\* std::string operator< : lexicographic on bytes, a proper prefix is smaller.
StrLess(s, t) ==
    \E k \in 1..(Min(Len(s), Len(t)) + 1) :
        /\ \A j \in 1..(k - 1) : s[j] = t[j]
        /\ \/ k > Len(s) /\ k <= Len(t)
           \/ k <= Len(s) /\ k <= Len(t) /\ s[k] < t[k]

(***************************************************************************)
(* indexer.cpp: to_lower, parse_tokens                                     *)
(***************************************************************************)
isalnum(ch) == ch \in (48..57) \cup (65..90) \cup (97..122)
tolower(ch) == IF ch \in 65..90 THEN ch + 32 ELSE ch

to_lower(s) == [k \in 1..Len(s) |-> tolower(s[k])]

RECURSIVE parse_tokens_from(_, _, _, _)
parse_tokens_from(text, k, token, toks) ==
    IF k > Len(text)
    THEN IF token # <<>> THEN Append(toks, to_lower(token)) ELSE toks
    ELSE IF isalnum(text[k])
         THEN parse_tokens_from(text, k + 1, Append(token, text[k]), toks)
         ELSE IF token # <<>>
              THEN parse_tokens_from(text, k + 1, <<>>, Append(toks, to_lower(token)))
              ELSE parse_tokens_from(text, k + 1, <<>>, toks)

parse_tokens(text) == parse_tokens_from(text, 1, <<>>, <<>>)

(***************************************************************************)
(* indexer.cpp main: the token loop of one document (lines 163-176)        *)
(***************************************************************************)
HasTerm(index, term) == \E k \in 1..Len(index) : index[k].term = term

FirstWithTerm(index, term) ==
    CHOOSE k \in 1..Len(index) :
        /\ index[k].term = term
        /\ \A j \in 1..(k - 1) : index[j].term # term

AddPosting_NewTermsOnly(index, token, doc_id) ==
    IF HasTerm(index, token) THEN index
    ELSE Append(index, [term |-> token, doc_ids |-> <<doc_id>>])

\* One iteration of the loop over the tokens of a document: linear search for
\* the term, push_back of doc_id on a hit, a new entry otherwise.
AddPosting(index, token, doc_id) ==
    IF HasTerm(index, token)
    THEN LET k == FirstWithTerm(index, token)
         IN [index EXCEPT ![k].doc_ids = Append(@, doc_id)]
    ELSE Append(index, [term |-> token, doc_ids |-> <<doc_id>>])

RECURSIVE AddPostings(_, _, _)
AddPostings(index, toks, doc_id) ==
    IF toks = <<>> THEN index
    ELSE AddPostings(AddPosting(index, Head(toks), doc_id), Tail(toks), doc_id)

(***************************************************************************)
(* Binary layout: uint64_t written from memory (little-endian, 8 bytes),   *)
(* strings as size then bytes.                                             *)
(***************************************************************************)
RECURSIVE LittleEndian(_, _)
LittleEndian(n, width) ==
    IF width = 0 THEN <<>>
    ELSE <<n % 256>> \o LittleEndian(n \div 256, width - 1)

\* out.write(reinterpret_cast<const char*>(&size), sizeof(size))
WriteU64(n) == LittleEndian(n, 8)

\* size, then out.write(s.c_str(), size)
WriteString(s) == WriteU64(Len(s)) \o s

\* write_direct_index: the bytes of one record of the loop body.
WriteDirectRecord(doc) == WriteString(doc.title) \o WriteString(doc.url)

RECURSIVE write_direct_index(_)
write_direct_index(index) ==
    IF index = <<>> THEN <<>>
    ELSE WriteDirectRecord(Head(index)) \o write_direct_index(Tail(index))

RECURSIVE WriteDocIds(_)
WriteDocIds(ids) ==
    IF ids = <<>> THEN <<>>
    ELSE WriteString(Head(ids)) \o WriteDocIds(Tail(ids))

\* Variant: the count of doc_ids is not written.
WriteInvertedRecord_NoCount(entry) ==
    WriteString(entry.term) \o WriteDocIds(entry.doc_ids)

\* write_inverted_index: the bytes of one record of the loop body.
WriteInvertedRecord(entry) ==
    WriteString(entry.term) \o WriteU64(Len(entry.doc_ids)) \o WriteDocIds(entry.doc_ids)

RECURSIVE write_inverted_index(_)
write_inverted_index(index) ==
    IF index = <<>> THEN <<>>
    ELSE WriteInvertedRecord(Head(index)) \o write_inverted_index(Tail(index))

(***************************************************************************)
(* std::ifstream as the loaders use it.  A stream is [pos, eof, fail]:     *)
(* pos bytes consumed, and the eofbit and failbit.                         *)
(***************************************************************************)
OpenStream == [pos |-> 0, eof |-> FALSE, fail |-> FALSE]

\* operator bool of the stream: !fail()
StreamOk(st) == ~st.fail

\* infile.read(buf, n): the bytes stored in buf and the stream afterwards.
\* On a stream that is not good nothing is read and failbit is set; reading
\* past the end stores what is left and sets eofbit and failbit.
Read(bytes, st, n) ==
    IF st.eof \/ st.fail
    THEN [data |-> <<>>, st |-> [st EXCEPT !.fail = TRUE]]
    ELSE LET avail == Len(bytes) - st.pos
         IN IF n <= avail
            THEN [data |-> SubSeq(bytes, st.pos + 1, st.pos + n),
                  st   |-> [st EXCEPT !.pos = st.pos + n]]
            ELSE [data |-> SubSeq(bytes, st.pos + 1, Len(bytes)),
                  st   |-> [pos |-> Len(bytes), eof |-> TRUE, fail |-> TRUE]]

\* The value of the bytes of a uint64_t, saturated at AllocLimit: every size
\* from AllocLimit on behaves alike.
FromLittleEndian(b) ==
    IF \E k \in 3..Len(b) : b[k] # 0 THEN AllocLimit
    ELSE Min((IF Len(b) >= 1 THEN b[1] ELSE 0) + 256 * (IF Len(b) >= 2 THEN b[2] ELSE 0),
             AllocLimit)

\* A size resize() cannot allocate: it throws (std::length_error or
\* std::bad_alloc), which nothing catches.
HugeSize == AllocLimit

\* The value of an uninitialized uint64_t after a read stored only the first
\* bytes of it (possibly none): the bytes read, below indeterminate ones.  u is
\* the value of the indeterminate bytes.
ShortU64(data, u) ==
    IF Len(data) = 0 THEN u
    ELSE IF u = 0 THEN FromLittleEndian(data)
    ELSE IF Len(data) = 1 THEN Min(data[1] + 256 * u, AllocLimit)
    ELSE HugeSize

\* infile.read(reinterpret_cast<char*>(&size), sizeof(size)) into an
\* uninitialized size.
ReadU64(bytes, st, u) ==
    LET r == Read(bytes, st, 8)
    IN [val |-> IF Len(r.data) = 8 THEN FromLittleEndian(r.data) ELSE ShortU64(r.data, u),
        st  |-> r.st]

\* s.resize(n); infile.read(&s[0], n): resize value-initializes (zero bytes),
\* the bytes read overwrite a prefix.
ReadString(bytes, st, n) ==
    LET r == Read(bytes, st, n)
    IN [val |-> r.data \o [k \in 1..(n - Len(r.data)) |-> 0],
        st  |-> r.st]

(***************************************************************************)
(* searching.cpp: one iteration of the loop of load_direct_index and of    *)
(* load_inverted_index.  u2, u3, un, ud are the indeterminate values of    *)
(* the uninitialized size variables.  The outcome is                       *)
(*   "break": eof after the first read, the loop ends;                     *)
(*   "throw": a resize() of a huge size throws, the process terminates;    *)
(*   "push" : a record is appended.                                        *)
(***************************************************************************)
LoadDirectRecord(bytes, st, u2, u3) ==
    LET title_size  == ReadU64(bytes, st, 0)
        title       == ReadString(bytes, title_size.st, title_size.val)
        url_size    == ReadU64(bytes, title.st, u2)
        url         == ReadString(bytes, url_size.st, url_size.val)
        doc_id_size == ReadU64(bytes, url.st, u3)
        doc_id      == ReadString(bytes, doc_id_size.st, doc_id_size.val)
    IN IF title_size.st.eof
       THEN [kind |-> "break", st |-> title_size.st]
       ELSE IF title_size.val >= HugeSize
       THEN [kind |-> "throw", st |-> title_size.st]
       ELSE IF url_size.val >= HugeSize
       THEN [kind |-> "throw", st |-> url_size.st]
       ELSE IF doc_id_size.val >= HugeSize
       THEN [kind |-> "throw", st |-> doc_id_size.st]
       ELSE [kind |-> "push", st |-> doc_id.st,
             doc |-> [doc_id |-> doc_id.val, title |-> title.val, url |-> url.val]]

\* The inner loop over i < doc_count: acc is [ids, st, thrown].
RECURSIVE LoadDocIds(_, _, _, _)
LoadDocIds(bytes, acc, n, ud) ==
    IF n = 0 \/ acc.thrown THEN acc
    ELSE LET doc_id_size == ReadU64(bytes, acc.st, ud)
             doc_id      == ReadString(bytes, doc_id_size.st, doc_id_size.val)
         IN IF doc_id_size.val >= HugeSize
            THEN [acc EXCEPT !.thrown = TRUE, !.st = doc_id_size.st]
            ELSE LoadDocIds(bytes,
                            [ids |-> Append(acc.ids, doc_id.val), st |-> doc_id.st,
                             thrown |-> FALSE],
                            n - 1, ud)

LoadInvertedRecord(bytes, st, un, ud) ==
    LET term_size == ReadU64(bytes, st, 0)
        term      == ReadString(bytes, term_size.st, term_size.val)
        doc_count == ReadU64(bytes, term.st, un)
        ids       == LoadDocIds(bytes, [ids |-> <<>>, st |-> doc_count.st, thrown |-> FALSE],
                                doc_count.val, ud)
    IN IF term_size.st.eof
       THEN [kind |-> "break", st |-> term_size.st]
       ELSE IF term_size.val >= HugeSize
       THEN [kind |-> "throw", st |-> term_size.st]
       ELSE IF doc_count.val >= HugeSize
       THEN [kind |-> "throw", st |-> doc_count.st]
       ELSE IF ids.thrown
       THEN [kind |-> "throw", st |-> ids.st]
       ELSE [kind |-> "push", st |-> ids.st,
             entry |-> [term |-> term.val, doc_ids |-> ids.ids]]

(***************************************************************************)
(* searching.cpp: parse_query.  The locals are lx = [i, token, tokens,     *)
(* in_quotes]; i counts the characters consumed.                           *)
(***************************************************************************)
IsQuote(c)     == c = 34                 \* '"'
IsSeparator_SpaceOnly(c) == c = 32
IsSeparator(c) == c \in {32, 40, 41}     \* ' ', '(', ')'
IsOperator(c)  == c \in {38, 124, 33}    \* '&', '|', '!'

ParseStart == [i |-> 0, token |-> <<>>, tokens |-> <<>>, in_quotes |-> FALSE]

\* if (!token.empty()) { tokens.push_back(token); token.clear(); }
Flush(lx) ==
    IF lx.token # <<>>
    THEN [lx EXCEPT !.tokens = Append(@, lx.token), !.token = <<>>]
    ELSE lx

\* Variant: a parenthesis outside quotes is pushed as a token of its own.
ParseChar_EmitParens(q, lx) ==
    LET c == q[lx.i + 1]
    IN IF IsQuote(c)
       THEN [lx EXCEPT !.in_quotes = ~lx.in_quotes, !.i = @ + 1]
       ELSE IF c = 32 /\ ~lx.in_quotes
       THEN [Flush(lx) EXCEPT !.i = @ + 1]
       ELSE IF c \in {40, 41} /\ ~lx.in_quotes
       THEN [Flush(lx) EXCEPT !.tokens = Append(@, <<c>>), !.i = @ + 1]
       ELSE IF IsOperator(c)
       THEN LET f == Flush(lx)
            IN IF lx.i + 1 < Len(q) /\ q[lx.i + 2] = c
               THEN [f EXCEPT !.tokens = Append(@, <<c, c>>), !.i = @ + 2]
               ELSE [f EXCEPT !.tokens = Append(@, <<c>>), !.i = @ + 1]
       ELSE [lx EXCEPT !.token = Append(@, c), !.i = @ + 1]

\* One iteration of the for loop, its ++i included.
ParseChar(q, lx) ==
    LET c == q[lx.i + 1]
    IN IF IsQuote(c) /\ ~lx.in_quotes
       THEN [lx EXCEPT !.in_quotes = TRUE, !.i = @ + 1]
       ELSE IF IsQuote(c) /\ lx.in_quotes
       THEN [lx EXCEPT !.in_quotes = FALSE, !.i = @ + 1]
       ELSE IF IsSeparator(c) /\ ~lx.in_quotes
       THEN [Flush(lx) EXCEPT !.i = @ + 1]
       ELSE IF IsOperator(c)
       THEN LET f == Flush(lx)
            IN IF lx.i + 1 < Len(q) /\ q[lx.i + 2] = c
               THEN [f EXCEPT !.tokens = Append(@, <<c, c>>), !.i = @ + 2]
               ELSE [f EXCEPT !.tokens = Append(@, <<c>>), !.i = @ + 1]
       ELSE [lx EXCEPT !.token = Append(@, c), !.i = @ + 1]

RECURSIVE ParseFrom(_, _)
ParseFrom(q, lx) ==
    IF lx.i < Len(q) THEN ParseFrom(q, ParseChar(q, lx)) ELSE Flush(lx).tokens

parse_query(q) == ParseFrom(q, ParseStart)

(***************************************************************************)
(* searching.cpp: and_operation, or_operation, not_operation and the       *)
(* <algorithm> merges they call, on ranges ordered by std::string <.       *)
(***************************************************************************)
RECURSIVE set_intersection(_, _)
set_intersection(a, b) ==
    IF a = <<>> \/ b = <<>> THEN <<>>
    ELSE IF StrLess(Head(a), Head(b)) THEN set_intersection(Tail(a), b)
    ELSE IF StrLess(Head(b), Head(a)) THEN set_intersection(a, Tail(b))
    ELSE <<Head(a)>> \o set_intersection(Tail(a), Tail(b))

RECURSIVE set_union(_, _)
set_union(a, b) ==
    IF a = <<>> THEN b
    ELSE IF b = <<>> THEN a
    ELSE IF StrLess(Head(b), Head(a)) THEN <<Head(b)>> \o set_union(a, Tail(b))
    ELSE IF StrLess(Head(a), Head(b)) THEN <<Head(a)>> \o set_union(Tail(a), b)
    ELSE <<Head(a)>> \o set_union(Tail(a), Tail(b))

RECURSIVE set_difference(_, _)
set_difference(a, b) ==
    IF a = <<>> THEN <<>>
    ELSE IF b = <<>> THEN a
    ELSE IF StrLess(Head(a), Head(b)) THEN <<Head(a)>> \o set_difference(Tail(a), b)
    ELSE IF StrLess(Head(b), Head(a)) THEN set_difference(a, Tail(b))
    ELSE set_difference(Tail(a), Tail(b))

\* Variant: the merge called is the union.
and_operation_Union(l, r) ==
    IF l = <<>> \/ r = <<>> THEN <<>> ELSE set_union(l, r)

and_operation(l, r) ==
    IF l = <<>> \/ r = <<>> THEN <<>> ELSE set_intersection(l, r)

\* Variant: the right list is appended to the left one.
or_operation_Concat(l, r) ==
    IF l = <<>> \/ r = <<>> THEN <<>> ELSE l \o r

or_operation(l, r) ==
    IF l = <<>> \/ r = <<>> THEN <<>> ELSE set_union(l, r)

\* Variant: the operands are taken the other way round.
not_operation_Swapped(l, r) ==
    IF r = <<>> THEN <<>> ELSE set_difference(r, l)

not_operation(l, r) ==
    IF l = <<>> THEN <<>> ELSE set_difference(l, r)

(***************************************************************************)
(* searching.cpp: boolean_search, one iteration of the loop over tokens.   *)
(***************************************************************************)
AND == <<38, 38>>     \* "&&"
OR  == <<124, 124>>   \* "||"
NOT == <<33>>         \* "!"

IsOperatorToken(t) == t = AND \/ t = OR \/ t = NOT

Apply(t, l, r) ==
    IF t = AND THEN and_operation(l, r)
    ELSE IF t = OR THEN or_operation(l, r)
    ELSE not_operation(l, r)

PopBack(s) == SubSeq(s, 1, Len(s) - 1)
Back(s)    == s[Len(s)]

NoOp == [kind |-> "none", token |-> <<>>, left |-> <<>>, right |-> <<>>,
         result |-> <<>>, depth |-> 0]

\* Variant: an operator is applied to a single list, as a unary operator
\* with an empty left operand.
EvalLocals_Unary(index, st, t) ==
    IF IsOperatorToken(t)
    THEN IF Len(st) < 1
         THEN [NoOp EXCEPT !.kind = "skip", !.token = t, !.depth = Len(st)]
         ELSE LET right == Back(st)
                  left  == IF Len(st) >= 2 THEN Back(PopBack(st)) ELSE <<>>
              IN [kind |-> "apply", token |-> t, left |-> left, right |-> right,
                  result |-> Apply(t, left, right), depth |-> Len(st)]
    ELSE IF HasTerm(index, t)
         THEN [NoOp EXCEPT !.kind = "push", !.token = t, !.depth = Len(st),
                           !.result = index[FirstWithTerm(index, t)].doc_ids]
         ELSE [NoOp EXCEPT !.kind = "miss", !.token = t, !.depth = Len(st)]

\* Variant: an operand that is no term of the index pushes an empty list.
EvalLocals_PushEmptyOnMiss(index, st, t) ==
    IF IsOperatorToken(t)
    THEN IF Len(st) < 2
         THEN [NoOp EXCEPT !.kind = "skip", !.token = t, !.depth = Len(st)]
         ELSE LET right == Back(st)
                  left  == Back(PopBack(st))
              IN [kind |-> "apply", token |-> t, left |-> left, right |-> right,
                  result |-> Apply(t, left, right), depth |-> Len(st)]
    ELSE IF HasTerm(index, t)
         THEN [NoOp EXCEPT !.kind = "push", !.token = t, !.depth = Len(st),
                           !.result = index[FirstWithTerm(index, t)].doc_ids]
         ELSE [NoOp EXCEPT !.kind = "push", !.token = t, !.depth = Len(st)]

\* The locals of the iteration for token t on stack st:
\*   "skip"  an operator with stack.size() < 2 (continue);
\*   "apply" an operator that popped right, then left, and computed result;
\*   "push"  an operand found in the index, result is its doc_ids;
\*   "miss"  an operand that is no term of the index (continue).
EvalLocals(index, st, t) ==
    IF IsOperatorToken(t)
    THEN IF Len(st) < 2
         THEN [NoOp EXCEPT !.kind = "skip", !.token = t, !.depth = Len(st)]
         ELSE LET right == Back(st)
                  left  == Back(PopBack(st))
              IN [kind |-> "apply", token |-> t, left |-> left, right |-> right,
                  result |-> Apply(t, left, right), depth |-> Len(st)]
    ELSE IF HasTerm(index, t)
         THEN [NoOp EXCEPT !.kind = "push", !.token = t, !.depth = Len(st),
                           !.result = index[FirstWithTerm(index, t)].doc_ids]
         ELSE [NoOp EXCEPT !.kind = "miss", !.token = t, !.depth = Len(st)]

\* The stack after the iteration.
EvalToken(index, st, t) ==
    LET l == EvalLocals(index, st, t)
    IN IF l.kind = "apply" THEN Append(PopBack(PopBack(st)), l.result)
       ELSE IF l.kind = "push" THEN Append(st, l.result)
       ELSE st

\* if (stack.empty()) return {}; return stack.back();
SearchResult(st) == IF st = <<>> THEN <<>> ELSE Back(st)

RECURSIVE EvalTokens(_, _, _)
\* The for loop of boolean_search over the tokens toks, from the stack st.
EvalTokens(index, st, toks) ==
    IF toks = <<>> THEN st
    ELSE EvalTokens(index, EvalToken(index, st, Head(toks)), Tail(toks))

\* boolean_search(query, inverted_index, direct_index); direct_index is not
\* read by the function.
boolean_search(q, index) == SearchResult(EvalTokens(index, <<>>, parse_query(q)))

(***************************************************************************)
(* Inputs.                                                                 *)
(***************************************************************************)
SeqsUpTo(S, n) == UNION {[1..k -> S] : k \in 0..n}

RECURSIVE Flatten(_)
Flatten(ss) == IF ss = <<>> THEN <<>> ELSE Head(ss) \o Flatten(Tail(ss))

RECURSIVE JoinWords(_)
JoinWords(ws) ==
    IF ws = <<>> THEN <<>>
    ELSE IF Len(ws) = 1 THEN Head(ws)
    ELSE Head(ws) \o SP \o JoinWords(Tail(ws))

\* clean_text values of corpus documents: "", "cat dog", "dog bird",
\* "cat cat", "Cat,dog".
Texts == { <<>>,
           cat \o SP \o dog,
           dog \o SP \o bird,
           cat \o SP \o cat,
           <<67, 97, 116, 44>> \o dog }

Titles == { <<>>, <<65>>, <<208, 176>> }   \* "", "A", one two-byte UTF-8 letter
Urls   == { <<>>, <<117>> }                \* "", "u"

\* A line of corpus.jsonl that Json::Reader parses.
CorpusDocs == [doc_id : {d1, d2}, title : {<<65>>}, url : {<<117>>}, clean_text : Texts]

\* The values an uninitialized uint64_t can hold.
Garbage == (0..MaxGarbage) \cup {HugeSize}

DirectTables   == SeqsUpTo([doc_id : {d1, d2}, title : Titles, url : Urls], MaxRecords)
\* Postings lists handed to the codec: none, one and several doc_ids, as
\* push_back leaves them.
CodecPostings  == { <<>>, <<d1>>, <<d1, d2>>, <<d2, d1>>, <<d1, d1>>, <<d1, d2, d3>> }
InvertedTables == SeqsUpTo([term : {cat, dog}, doc_ids : CodecPostings], MaxRecords)

\* Characters of the queries handed to parse_query: a " ( ) & | ! and space.
QueryChars  == {97, 34, 32, 40, 41, 38, 124, 33}
CharQueries == SeqsUpTo(QueryChars, MaxQueryLen)

\* Lines of the query file, words separated by one space: every line of up to
\* MaxQueryTokens words, and the lines that chain two operations, so that the
\* result of one is the left or the right operand of the next.
QueryTerms == {cat, dog, emu}
QueryOps   == {AND, OR, NOT}
QueryWords == QueryTerms \cup QueryOps
ChainedQueries ==
    {JoinWords(<<a, b, o1, c, o2>>) : a \in QueryTerms, b \in QueryTerms, c \in QueryTerms,
                                      o1 \in QueryOps, o2 \in QueryOps}
    \cup
    {JoinWords(<<a, b, c, o1, o2>>) : a \in QueryTerms, b \in QueryTerms, c \in QueryTerms,
                                      o1 \in QueryOps, o2 \in QueryOps}
\* Lines with parentheses, outside and inside quotes:
\*   cat (dog cat ||) &&     (cat dog) !     cat(dog     (cat)dog&&
\*   "(cat)"     "cat" (dog)     cat ("dog) cat" ||
ParenQueries ==
    { cat \o SP \o <<40>> \o dog \o SP \o cat \o SP \o OR \o <<41>> \o SP \o AND,
      <<40>> \o cat \o SP \o dog \o <<41>> \o SP \o NOT,
      cat \o <<40>> \o dog,
      <<40>> \o cat \o <<41>> \o dog \o AND,
      <<34, 40>> \o cat \o <<41, 34>>,
      <<34>> \o cat \o <<34, 32, 40>> \o dog \o <<41>>,
      cat \o <<32, 40, 34>> \o dog \o <<41, 32>> \o cat \o <<34, 32>> \o OR }
QueryLines ==
    {JoinWords(ws) : ws \in SeqsUpTo(QueryWords, MaxQueryTokens)}
        \cup ChainedQueries \cup ParenQueries

RECURSIVE SortedSeq(_)
\* The ascending sequence of a set of strings.
SortedSeq(S) ==
    IF S = {} THEN <<>>
    ELSE LET m == CHOOSE x \in S : \A y \in S : y = x \/ StrLess(x, y)
         IN <<m>> \o SortedSeq(S \ {m})

\* Postings lists of a loaded index: every non-empty ascending duplicate-free
\* list over d1, d2, d3, and two lists as the indexer's push_back leaves them.
LoadedPostings ==
    {SortedSeq(S) : S \in (SUBSET {d1, d2, d3}) \ {{}}} \cup {<<d2, d1>>, <<d1, d1>>}
LoadedIndexes  ==
    { <<[term |-> cat, doc_ids |-> a], [term |-> dog, doc_ids |-> b]>> :
        a \in LoadedPostings, b \in LoadedPostings }
\* The two-document corpus of the scenarios and the queries run on its index:
\* dog cat &&, cat bird ||, dog cat !, bird, and emu, which is no term.
ScenarioDocs ==
    { [doc_id |-> d1, title |-> <<65>>, url |-> <<117>>, clean_text |-> cat \o SP \o dog],
      [doc_id |-> d2, title |-> <<66>>, url |-> <<118>>, clean_text |-> dog \o SP \o bird] }
ScenarioQueries ==
    { JoinWords(<<dog, cat, AND>>), JoinWords(<<cat, bird, OR>>),
      JoinWords(<<dog, cat, NOT>>), bird, emu }

\* The direct index of the searcher: records for d1 and d3, none for d2, and
\* a second record for d1 as a corpus with a repeated doc_id leaves it.
LoadedDirect ==
    << [doc_id |-> d1, title |-> <<65>>, url |-> <<117>>],
       [doc_id |-> d3, title |-> <<66>>, url |-> <<118>>],
       [doc_id |-> d1, title |-> <<67>>, url |-> <<119>>] >>

(***************************************************************************)
(* Initial values.                                                         *)
(***************************************************************************)
NoFile   == [written |-> FALSE, bytes |-> <<>>]
NoOutput == [nothing |-> FALSE, lines |-> <<>>]

InitBuilder ==
    /\ corpus = <<>> /\ direct_index = <<>> /\ inverted_index = <<>>
    /\ doc_ids_set = {} /\ total_tokens = 0 /\ total_docs = 0 /\ total_terms = 0
InitFiles  == direct_file = NoFile /\ inverted_file = NoFile
InitLoader == infile = OpenStream /\ s_direct_index = <<>> /\ s_inverted_index = <<>>
InitParse  == query = <<>> /\ lex = ParseStart
InitEval   ==
    /\ tokens = <<>> /\ tpos = 1 /\ stack = <<>> /\ lastop = NoOp
    /\ result = <<>> /\ output = NoOutput

(***************************************************************************)
(* indexer.cpp: main                                                       *)
(***************************************************************************)
\* std::ifstream corpus_file("data/corpus.jsonl"); if (!corpus_file) return 1;
OpenCorpus ==
    /\ pc = "start"
    /\ \E ok \in BOOLEAN : pc' = IF ok THEN "read_corpus" ELSE "exit1"
    /\ UNCHANGED <<builderVars, fileVars, loaderVars, parseVars, evalVars>>

\* One iteration of the while (std::getline) loop on a line that parses, the
\* line being one of docs.
ReadDocumentFrom(docs) ==
    /\ pc = "read_corpus"
    /\ Len(corpus) < MaxDocs
    /\ \E doc \in docs :
         LET toks == parse_tokens(doc.clean_text)
             inv  == AddPostings(inverted_index, toks, doc.doc_id)
         IN /\ corpus' = Append(corpus, [parsed |-> TRUE, doc_id |-> doc.doc_id,
                                         clean_text |-> doc.clean_text])
            /\ doc_ids_set' = doc_ids_set \cup {doc.doc_id}
            /\ direct_index' = Append(direct_index,
                   [doc_id |-> doc.doc_id, title |-> doc.title, url |-> doc.url])
            /\ total_tokens' = total_tokens + Len(toks)
            /\ inverted_index' = inv
            /\ total_terms' = total_terms + (Len(inv) - Len(inverted_index))
            /\ total_docs' = total_docs + 1
    /\ UNCHANGED <<pc, fileVars, loaderVars, parseVars, evalVars>>

ReadDocument == ReadDocumentFrom(CorpusDocs)

\* The corpus d1 = "cat dog", d2 = "dog bird".
ReadScenarioDocument == ReadDocumentFrom(ScenarioDocs)

\* One iteration on a line Json::Reader rejects: continue.
SkipMalformedLine ==
    /\ pc = "read_corpus"
    /\ Len(corpus) < MaxDocs
    /\ corpus' = Append(corpus, [parsed |-> FALSE, doc_id |-> <<>>, clean_text |-> <<>>])
    /\ UNCHANGED <<pc, direct_index, inverted_index, doc_ids_set, total_tokens,
                   total_docs, total_terms, fileVars, loaderVars, parseVars, evalVars>>

\* getline fails at the end of the file: corpus_file.close().
CorpusEof ==
    /\ pc = "read_corpus"
    /\ pc' = "write_direct"
    /\ UNCHANGED <<builderVars, fileVars, loaderVars, parseVars, evalVars>>

\* write_direct_index(direct_index, "data/direct_index.bin"): the file is
\* opened (and truncated) or the function returns after its message.
WriteDirectIndex ==
    /\ pc = "write_direct"
    /\ \E ok \in BOOLEAN :
         direct_file' = IF ok THEN [written |-> TRUE, bytes |-> write_direct_index(direct_index)]
                        ELSE direct_file
    /\ pc' = "write_inverted"
    /\ UNCHANGED <<builderVars, inverted_file, loaderVars, parseVars, evalVars>>

\* write_inverted_index(inverted_index, "data/inverted_index.bin")
WriteInvertedIndex ==
    /\ pc = "write_inverted"
    /\ \E ok \in BOOLEAN :
         inverted_file' = IF ok THEN [written |-> TRUE, bytes |-> write_inverted_index(inverted_index)]
                          ELSE inverted_file
    /\ pc' = "log_statistics"
    /\ UNCHANGED <<builderVars, direct_file, loaderVars, parseVars, evalVars>>

\* log_statistics(...) and return 0.  With the log file open the function
\* divides total_tokens by total_docs as uint64_t: with no document that is a
\* division by zero, after which the process may be killed or go on.
LogStatistics ==
    /\ pc = "log_statistics"
    /\ \E log_open \in BOOLEAN, killed \in BOOLEAN :
         pc' = IF log_open /\ total_docs = 0 /\ killed THEN "crashed" ELSE "exit0"
    /\ UNCHANGED <<builderVars, fileVars, loaderVars, parseVars, evalVars>>

(***************************************************************************)
(* searching.cpp: main                                                     *)
(***************************************************************************)
\* A later run of the searcher: argc < 2 or an unreadable query file returns 1.
SearcherMain ==
    /\ pc \in {"exit0", "exit1", "crashed"}
    /\ \E ok \in BOOLEAN : pc' = IF ok THEN "load_direct" ELSE "s_exit1"
    /\ UNCHANGED <<builderVars, fileVars, loaderVars, parseVars, evalVars>>

\* data/inverted_index.bin is as write_inverted_index wrote it in the build.
InvertedFileWhole ==
    inverted_file = [written |-> TRUE, bytes |-> write_inverted_index(inverted_index)]

\* Between the two runs data/inverted_index.bin loses its last cut bytes, so
\* that it ends in the middle of its last record.
TruncateInvertedFile ==
    /\ pc \in {"exit0", "crashed"}
    /\ InvertedFileWhole
    /\ \E cut \in 1..MaxCut :
         /\ cut <= Len(inverted_file.bytes)
         /\ inverted_file' = [inverted_file EXCEPT
                                !.bytes = SubSeq(@, 1, Len(@) - cut)]
    /\ UNCHANGED <<pc, builderVars, direct_file, loaderVars, parseVars, evalVars>>

\* load_direct_index: std::ifstream infile(filename); if (!infile) return;
OpenDirectIndex ==
    /\ pc = "load_direct"
    /\ infile' = OpenStream
    /\ pc' = IF direct_file.written THEN "load_direct_loop" ELSE "load_inverted"
    /\ UNCHANGED <<builderVars, fileVars, s_direct_index, s_inverted_index,
                   parseVars, evalVars>>

\* One iteration of while (infile) in load_direct_index, and the test of the
\* loop condition that follows it.
LoadDirectStep ==
    /\ pc = "load_direct_loop"
    /\ \E u2 \in Garbage, u3 \in Garbage :
         LET r == LoadDirectRecord(direct_file.bytes, infile, u2, u3)
         IN /\ infile' = r.st
            /\ s_direct_index' = IF r.kind = "push" THEN Append(s_direct_index, r.doc)
                                 ELSE s_direct_index
            /\ pc' = IF r.kind = "throw" THEN "load_direct_threw"
                     ELSE IF r.kind = "push" /\ StreamOk(r.st) THEN "load_direct_loop"
                     ELSE "load_inverted"
    /\ UNCHANGED <<builderVars, fileVars, s_inverted_index, parseVars, evalVars>>

\* load_inverted_index: std::ifstream infile(filename); if (!infile) return;
OpenInvertedIndex ==
    /\ pc = "load_inverted"
    /\ infile' = OpenStream
    /\ pc' = IF inverted_file.written THEN "load_inverted_loop" ELSE "read_query"
    /\ UNCHANGED <<builderVars, fileVars, s_direct_index, s_inverted_index,
                   parseVars, evalVars>>

\* One iteration of while (infile) in load_inverted_index, and the test of
\* the loop condition that follows it.  doc_id_size lives in one slot for
\* the whole inner loop, so one indeterminate value ud serves the record.
LoadInvertedStep ==
    /\ pc = "load_inverted_loop"
    /\ \E un \in Garbage, u \in Garbage :
         LET r == LoadInvertedRecord(inverted_file.bytes, infile, un, u)
         IN /\ infile' = r.st
            /\ s_inverted_index' = IF r.kind = "push" THEN Append(s_inverted_index, r.entry)
                                   ELSE s_inverted_index
            /\ pc' = IF r.kind = "throw" THEN "load_inverted_threw"
                     ELSE IF r.kind = "push" /\ StreamOk(r.st) THEN "load_inverted_loop"
                     ELSE "read_query"
    /\ UNCHANGED <<builderVars, fileVars, s_direct_index, parseVars, evalVars>>

RECURSIVE PrintLines_StopAtMissing(_, _)
PrintLines_StopAtMissing(res, direct) ==
    IF res = <<>> THEN <<>>
    ELSE LET hits == {k \in 1..Len(direct) : direct[k].doc_id = Head(res)}
         IN IF hits = {} THEN <<>>
            ELSE <<direct[CHOOSE k \in hits : \A j \in hits : k <= j]>>
                     \o PrintLines_StopAtMissing(Tail(res), direct)

\* The lines main prints for a non-empty result: std::find_if takes the first
\* record with the doc_id, a doc_id without a record prints nothing.
RECURSIVE PrintLines(_, _)
PrintLines(res, direct) ==
    IF res = <<>> THEN <<>>
    ELSE LET hits == {k \in 1..Len(direct) : direct[k].doc_id = Head(res)}
             rest == PrintLines(Tail(res), direct)
         IN IF hits = {} THEN rest
            ELSE <<direct[CHOOSE k \in hits : \A j \in hits : k <= j]>> \o rest

\* while (std::getline(infile, query)) on an empty line: continue.
ReadBlankLine ==
    /\ pc = "read_query"
    /\ query' = <<>>
    /\ UNCHANGED <<pc, lex, builderVars, fileVars, loaderVars, evalVars>>

\* The same with a stack that starts with one list when the query before
\* found nothing.
ReadQueryFrom_StackLeftOver(lines) ==
    /\ pc = "read_query"
    /\ \E q \in lines \ {<<>>} :
         /\ query' = q
         /\ tokens' = parse_query(q)
    /\ tpos' = 1
    /\ stack' = IF output.nothing THEN << <<d1>> >> ELSE <<>>
    /\ lastop' = NoOp
    /\ pc' = "eval"
    /\ UNCHANGED <<lex, result, output, builderVars, fileVars, loaderVars>>

\* getline on a non-empty line, one of lines, then the head of boolean_search:
\* auto tokens = parse_query(query) and the empty stack.  output stays what
\* the query before printed.
ReadQueryFrom(lines) ==
    /\ pc = "read_query"
    /\ \E q \in lines \ {<<>>} :
         /\ query' = q
         /\ tokens' = parse_query(q)
    /\ tpos' = 1
    /\ stack' = <<>>
    /\ lastop' = NoOp
    /\ pc' = "eval"
    /\ UNCHANGED <<lex, result, output, builderVars, fileVars, loaderVars>>

\* A line of QueryLines read while the run has printed no line yet.
ReadQuery == output = NoOutput /\ ReadQueryFrom(QueryLines)

\* The query file of the scenarios.
ReadScenarioQuery == ReadQueryFrom(ScenarioQueries)

\* One iteration of for (const std::string &token : tokens).
EvalStep ==
    /\ pc = "eval"
    /\ tpos <= Len(tokens)
    /\ lastop' = EvalLocals(s_inverted_index, stack, tokens[tpos])
    /\ stack' = EvalToken(s_inverted_index, stack, tokens[tpos])
    /\ tpos' = tpos + 1
    /\ UNCHANGED <<pc, tokens, result, output, builderVars, fileVars, loaderVars, parseVars>>

\* The return of boolean_search into main's result; the locals of the call
\* are destroyed.
EvalReturn ==
    /\ pc = "eval"
    /\ tpos > Len(tokens)
    /\ result' = SearchResult(stack)
    /\ tokens' = <<>> /\ tpos' = 1 /\ stack' = <<>> /\ lastop' = NoOp
    /\ pc' = "print"
    /\ UNCHANGED <<output, builderVars, fileVars, loaderVars, parseVars>>

\* The printing of result in main (lines 213-224); query is dead from here
\* until the next getline.
PrintResult ==
    /\ pc = "print"
    /\ output' = [nothing |-> result = <<>>,
                  lines   |-> PrintLines(result, s_direct_index)]
    /\ query' = <<>>
    /\ pc' = "printed"
    /\ UNCHANGED <<lex, tokens, tpos, stack, lastop, result, builderVars, fileVars,
                   loaderVars>>

\* std::cout << std::endl and the end of the loop body, where result is
\* destroyed.
EndQueryLine ==
    /\ pc = "printed"
    /\ result' = <<>>
    /\ pc' = "read_query"
    /\ UNCHANGED <<tokens, tpos, stack, lastop, output, builderVars, fileVars,
                   loaderVars, parseVars>>

\* getline fails at the end of the query file: return 0.
QueryEof ==
    /\ pc = "read_query"
    /\ pc' = "s_exit0"
    /\ UNCHANGED <<builderVars, fileVars, loaderVars, parseVars, evalVars>>

(***************************************************************************)
(* parse_query run one character at a time.                                *)
(***************************************************************************)
ParseCharStep ==
    /\ pc = "parse"
    /\ lex.i < Len(query)
    /\ lex' = ParseChar(query, lex)
    /\ UNCHANGED <<pc, query, builderVars, fileVars, loaderVars, evalVars>>

\* The flush after the loop and the return of tokens.
ParseReturn ==
    /\ pc = "parse"
    /\ lex.i >= Len(query)
    /\ lex' = Flush(lex)
    /\ tokens' = Flush(lex).tokens
    /\ pc' = "parsed"
    /\ UNCHANGED <<query, tpos, stack, lastop, result, output,
                   builderVars, fileVars, loaderVars>>

(***************************************************************************)
(* Specifications.                                                         *)
(***************************************************************************)
\* The indexer from its start to its exit.
InitBuild ==
    /\ pc = "start"
    /\ InitBuilder /\ InitFiles /\ InitLoader /\ InitParse /\ InitEval

NextBuild ==
    \/ OpenCorpus
    \/ ReadDocument
    \/ SkipMalformedLine
    \/ CorpusEof
    \/ WriteDirectIndex
    \/ WriteInvertedIndex
    \/ LogStatistics

SpecBuild == InitBuild /\ [][NextBuild]_vars

\* The codec: tables as the indexer holds them after the corpus loop, written
\* by the indexer and loaded by a later run of the searcher.
InitCodec ==
    /\ pc = "write_direct"
    /\ \/ direct_index \in DirectTables /\ inverted_index = <<>>
       \/ direct_index = <<>> /\ inverted_index \in InvertedTables
    /\ corpus = <<>> /\ doc_ids_set = {}
    /\ total_tokens = 0 /\ total_terms = 0 /\ total_docs = Len(direct_index)
    /\ InitFiles /\ InitLoader /\ InitParse /\ InitEval

NextCodec ==
    \/ WriteDirectIndex
    \/ WriteInvertedIndex
    \/ LogStatistics
    \/ SearcherMain
    \/ OpenDirectIndex
    \/ LoadDirectStep
    \/ OpenInvertedIndex
    \/ LoadInvertedStep

SpecCodec == InitCodec /\ [][NextCodec]_vars

\* parse_query on every query of the bounded alphabet.
InitParseQuery ==
    /\ pc = "parse"
    /\ query \in CharQueries
    /\ lex = ParseStart
    /\ InitBuilder /\ InitFiles /\ InitLoader /\ InitEval

NextParse ==
    \/ ParseCharStep
    \/ ParseReturn

SpecParse == InitParseQuery /\ [][NextParse]_vars

\* The query loop of the searcher over loaded tables, up to the first query
\* that prints a line.
InitSearch ==
    /\ pc = "read_query"
    /\ s_inverted_index \in LoadedIndexes
    /\ s_direct_index = LoadedDirect
    /\ infile = OpenStream
    /\ InitBuilder /\ InitFiles /\ InitParse /\ InitEval

NextSearch ==
    \/ ReadBlankLine
    \/ ReadQuery
    \/ EvalStep
    \/ EvalReturn
    \/ PrintResult
    \/ EndQueryLine
    \/ QueryEof

SpecSearch == InitSearch /\ [][NextSearch]_vars

\* A run of the indexer on the scenario corpus followed by a run of the
\* searcher on the files it left, whole or cut short.
NextSession ==
    \/ OpenCorpus
    \/ ReadScenarioDocument
    \/ SkipMalformedLine
    \/ CorpusEof
    \/ WriteDirectIndex
    \/ WriteInvertedIndex
    \/ LogStatistics
    \/ TruncateInvertedFile
    \/ SearcherMain
    \/ OpenDirectIndex
    \/ LoadDirectStep
    \/ OpenInvertedIndex
    \/ LoadInvertedStep
    \/ ReadBlankLine
    \/ ReadScenarioQuery
    \/ EvalStep
    \/ EvalReturn
    \/ PrintResult
    \/ EndQueryLine
    \/ QueryEof

SpecSession == InitBuild /\ [][NextSession]_vars

Spec == SpecBuild

(***************************************************************************)
(* Properties.                                                             *)
(***************************************************************************)
Range(f) == {f[k] : k \in DOMAIN f}

StrictlyAscending(l) == \A k \in 1..(Len(l) - 1) : StrLess(l[k], l[k + 1])

IsPrefix(a, b) == Len(a) <= Len(b) /\ SubSeq(b, 1, Len(a)) = a

\* The corpus loop of the indexer is over.
BuildDone == pc \in {"write_direct", "write_inverted", "log_statistics", "exit0", "crashed"}

\* C1: after the corpus loop, the postings list of every term of the inverted
\* index is strictly ascending by doc_id, so holds no doc_id twice.
C1_PostingsStrictlyAscending ==
    BuildDone =>
        \A k \in 1..Len(inverted_index) : StrictlyAscending(inverted_index[k].doc_ids)

\* C2: once load_direct_index has read the file write_direct_index wrote, the
\* loaded records are the written ones: same doc_id, title and url, same order.
C2_DirectRoundTrip ==
    (pc \in {"load_inverted", "load_inverted_loop", "read_query"} /\ direct_file.written)
        => s_direct_index = direct_index

\* C3: load_inverted_index on the file write_inverted_index wrote never throws,
\* holds a prefix of the written entries while it loops, and ends with exactly
\* the written entries: same terms, same postings lists, same order, no extra
\* or partial entry.
C3_InvertedRoundTrip ==
    inverted_file.written =>
        /\ pc # "load_inverted_threw"
        /\ pc = "load_inverted_loop" => IsPrefix(s_inverted_index, inverted_index)
        /\ pc = "read_query" => s_inverted_index = inverted_index

\* A table of two entries, one with two postings, has made the round trip.
C3_Witness ==
    /\ pc = "read_query"
    /\ inverted_file.written
    /\ s_inverted_index = inverted_index
    /\ inverted_index = <<[term |-> cat, doc_ids |-> <<d1, d2>>],
                          [term |-> dog, doc_ids |-> <<>>]>>

\* The last iteration of boolean_search applied operator t to two ascending
\* duplicate-free lists.
Applied(t) ==
    /\ pc = "eval"
    /\ lastop.kind = "apply"
    /\ lastop.token = t
    /\ StrictlyAscending(lastop.left)
    /\ StrictlyAscending(lastop.right)

\* C4: the list pushed for || on two ascending duplicate-free lists is their
\* set union in ascending order.
C4_OrIsUnion ==
    Applied(OR) =>
        /\ lastop.result = SortedSeq(Range(lastop.left) \cup Range(lastop.right))
        /\ Back(stack) = lastop.result

\* C5: the list pushed for && on two ascending duplicate-free lists is their
\* set intersection in ascending order.
C5_AndIsIntersection ==
    Applied(AND) =>
        /\ lastop.result = SortedSeq(Range(lastop.left) \cap Range(lastop.right))
        /\ Back(stack) = lastop.result

\* && has met two overlapping lists.
C5_Witness ==
    /\ Applied(AND)
    /\ lastop.left = <<d1, d2>> /\ lastop.right = <<d2, d3>>
    /\ stack = << <<d2>> >>

\* An iteration of boolean_search is about to run on token tokens[tpos].
AtToken == pc = "eval" /\ tpos <= Len(tokens)

\* C6: with two or more (ascending duplicate-free) lists on the stack, !
\* replaces the two top lists by the lower one minus the top one, in ascending
\* order, so the depth drops by one; on a single list ! changes nothing.
C6_NotIsBinaryDifference ==
    [][ /\ ( /\ AtToken
              /\ tokens[tpos] = NOT
              /\ Len(stack) >= 2
              /\ StrictlyAscending(stack[Len(stack) - 1])
              /\ StrictlyAscending(stack[Len(stack)]) )
            => stack' = Append(SubSeq(stack, 1, Len(stack) - 2),
                               SortedSeq(Range(stack[Len(stack) - 1])
                                         \ Range(stack[Len(stack)])))
        /\ (AtToken /\ tokens[tpos] = NOT /\ Len(stack) = 1) => stack' = stack
      ]_vars

\* ! has removed one doc_id of the lower list and kept another.
C6_Witness ==
    /\ Applied(NOT)
    /\ lastop.left = <<d1, d2>> /\ lastop.right = <<d2, d3>>
    /\ stack = << <<d1>> >>

\* C7: an operator token met with fewer than two lists on the stack leaves
\* the stack as it is.
C7_OperatorArity ==
    [][ (AtToken /\ IsOperatorToken(tokens[tpos]) /\ Len(stack) < 2) => stack' = stack ]_vars

\* An operator has been skipped over a stack of one list.
C7_Witness ==
    /\ pc = "eval"
    /\ lastop.kind = "skip"
    /\ lastop.depth = 1
    /\ Len(stack) = 1

\* C8: an operand that is no term of the index leaves the stack as it is, an
\* operand that is a term pushes the postings list of that term; a query that
\* is one unknown term returns the empty list.
C8_UnknownTerm ==
    /\ [][ (AtToken /\ ~IsOperatorToken(tokens[tpos])) =>
             IF \E k \in 1..Len(s_inverted_index) : s_inverted_index[k].term = tokens[tpos]
             THEN \E k \in 1..Len(s_inverted_index) :
                     /\ s_inverted_index[k].term = tokens[tpos]
                     /\ stack' = Append(stack, s_inverted_index[k].doc_ids)
             ELSE stack' = stack
         ]_vars
    /\ []( (pc = "print" /\ query = emu) => result = <<>> )

\* The query emu has returned.
C8_Witness ==
    /\ pc = "print"
    /\ query = emu
    /\ result = <<>>

\* Character k of q lies inside quotes: an odd number of " precede it.
InQuotes(q, k) == Cardinality({j \in 1..(k - 1) : IsQuote(q[j])}) % 2 = 1

\* C9: a character between an opening " and its closing " is appended to the
\* operand token in progress; it emits no token and ends none.
C9_QuotedTextIsOneOperand ==
    [][ ( /\ pc = "parse"
          /\ lex.i < Len(query)
          /\ ~IsQuote(query[lex.i + 1])
          /\ InQuotes(query, lex.i + 1)
          /\ \E j \in (lex.i + 2)..Len(query) : IsQuote(query[j]) )
        => /\ lex'.tokens = lex.tokens
           /\ lex'.token = Append(lex.token, query[lex.i + 1])
      ]_vars

IsParen(c) == c \in {40, 41}

\* The parentheses of q outside quotes, and those inside quotes, in order.
ParensOutside(q) ==
    LET F[k \in 0..Len(q)] ==
            IF k = 0 THEN <<>>
            ELSE IF IsParen(q[k]) /\ ~InQuotes(q, k) THEN Append(F[k - 1], <<q[k]>>)
            ELSE F[k - 1]
    IN F[Len(q)]

ParensInside(q) ==
    LET F[k \in 0..Len(q)] ==
            IF k = 0 THEN <<>>
            ELSE IF IsParen(q[k]) /\ InQuotes(q, k) THEN Append(F[k - 1], q[k])
            ELSE F[k - 1]
    IN F[Len(q)]

RECURSIVE IsSubsequence(_, _)
IsSubsequence(a, b) ==
    IF a = <<>> THEN TRUE
    ELSE IF b = <<>> THEN FALSE
    ELSE IF Head(a) = Head(b) THEN IsSubsequence(Tail(a), Tail(b))
    ELSE IsSubsequence(a, Tail(b))

\* C10 as claimed: the returned tokens hold a ( or ) token for every ( or )
\* of the query outside quotes, in the order of the query.
C10_ParenTokensEmitted ==
    pc = "parsed" => IsSubsequence(ParensOutside(query), tokens)

\* C10 as the code has it: a ( or ) outside quotes yields no token and no
\* character of a token; the parentheses found in the returned tokens are
\* exactly those of the query inside quotes, in order.
C10_ParensAreSeparators ==
    pc = "parsed" => SelectSeq(Flatten(tokens), IsParen) = ParensInside(query)

\* The query a(a has been split at its parenthesis into the tokens a, a.
C10_Witness ==
    /\ pc = "parsed"
    /\ query = <<97, 40, 97>>
    /\ tokens = << <<97>>, <<97>> >>

\* q with every parenthesis outside quotes replaced by a space.
ParensAsSpaces(q) ==
    [k \in 1..Len(q) |-> IF IsParen(q[k]) /\ ~InQuotes(q, k) THEN 32 ELSE q[k]]

\* C11: parentheses have no effect on evaluation: the result boolean_search
\* returns for a query line is the result it returns for the line with every
\* parenthesis outside quotes replaced by a space, on every index.
C11_ParensHaveNoEffect ==
    pc = "print" => result = boolean_search(ParensAsSpaces(query), s_inverted_index)

\* cat (dog cat ||) && has returned the non-empty result of cat dog cat || &&.
C11_Witness ==
    /\ pc = "print"
    /\ query = cat \o SP \o <<40>> \o dog \o SP \o cat \o SP \o OR \o <<41>> \o SP \o AND
    /\ s_inverted_index = <<[term |-> cat, doc_ids |-> <<d1, d2>>],
                            [term |-> dog, doc_ids |-> <<d2, d3>>]>>
    /\ result = <<d1, d2>>

ScenarioCorpus ==
    << [parsed |-> TRUE, doc_id |-> d1, clean_text |-> cat \o SP \o dog],
       [parsed |-> TRUE, doc_id |-> d2, clean_text |-> dog \o SP \o bird] >>

ScenarioIndex ==
    << [term |-> cat,  doc_ids |-> <<d1>>],
       [term |-> dog,  doc_ids |-> <<d1, d2>>],
       [term |-> bird, doc_ids |-> <<d2>>] >>

\* C12: the corpus d1 = "cat dog", d2 = "dog bird" builds the inverted index
\* cat:[d1], dog:[d1,d2], bird:[d2]; a searcher that has loaded the file
\* written from it returns [d1] for dog cat &&, [d1,d2] for cat bird || and
\* [d2] for dog cat !.
C12_Scenarios ==
    /\ corpus = ScenarioCorpus => inverted_index = ScenarioIndex
    /\ (pc = "print" /\ corpus = ScenarioCorpus /\ InvertedFileWhole) =>
          /\ query = JoinWords(<<dog, cat, AND>>) => result = <<d1>>
          /\ query = JoinWords(<<cat, bird, OR>>) => result = <<d1, d2>>
          /\ query = JoinWords(<<dog, cat, NOT>>) => result = <<d2>>

\* The searcher has answered dog cat ! on the index loaded from the files of
\* the scenario build.
C12_Witness ==
    /\ pc = "print"
    /\ corpus = ScenarioCorpus
    /\ s_inverted_index = ScenarioIndex
    /\ query = JoinWords(<<dog, cat, NOT>>)
    /\ result = <<d2>>

\* The lines of the corpus that parsed, in order.
ParsedLines == SelectSeq(corpus, LAMBDA l : l.parsed)

\* The number of parsed lines whose doc_id an earlier parsed line had.
DuplicateCount ==
    Cardinality({k \in 1..Len(ParsedLines) :
                    \E j \in 1..(k - 1) : ParsedLines[j].doc_id = ParsedLines[k].doc_id})

\* The counters main keeps during the build and hands to log_statistics.
BuildCounters == {total_tokens, total_docs, total_terms}

\* C13: after a build from two records that share a doc_id, the direct index
\* holds both records in ingestion order, and the build holds a count of
\* duplicate doc_ids whose value is 1.
C13_DuplicateCounted ==
    (BuildDone /\ Len(ParsedLines) = 2 /\ DuplicateCount = 1) =>
        /\ Len(direct_index) = 2
        /\ \A k \in 1..2 : direct_index[k].doc_id = ParsedLines[k].doc_id
        /\ 1 \in BuildCounters

\* C14: a build during which data/direct_index.bin or data/inverted_index.bin
\* could not be opened for writing does not end with the success message and
\* exit status 0.
C14_OutputFailureIsFatal ==
    pc = "exit0" => (direct_file.written /\ inverted_file.written)

\* The searcher is in its query loop or has left it with status 0.
Answering == pc \in {"eval", "print", "s_exit0"}

\* C15: when an index file could not be opened, or data/inverted_index.bin ends
\* in the middle of its last record, the searcher does not enter its query
\* loop (it prints no result and does not return 0), and the loaded table
\* holds whole records of the build only.
C15_LoadFailureIsFatal ==
    (pc \notin {"start", "read_corpus", "exit1", "write_direct", "write_inverted",
                "log_statistics", "exit0", "crashed"}
       /\ (~direct_file.written \/ ~InvertedFileWhole)) =>
        /\ ~Answering
        /\ IsPrefix(s_inverted_index, inverted_index)

\* doc_id id has a record in the direct index of the searcher.
HasRecord(id) == \E k \in 1..Len(s_direct_index) : s_direct_index[k].doc_id = id

\* C16: for a non-empty result the searcher has printed one line per doc_id
\* of the result that has a record in the direct index, in the order of the
\* result, each with the title and url of a record of that doc_id; the
\* doc_ids without a record contribute nothing, and no "nothing found" line
\* is printed.
C16_ResolverSkipsMissing ==
    (pc = "printed" /\ result # <<>>) =>
        LET found == SelectSeq(result, HasRecord)
        IN /\ ~output.nothing
           /\ Len(output.lines) = Len(found)
           /\ \A k \in 1..Len(found) :
                 /\ output.lines[k].doc_id = found[k]
                 /\ output.lines[k] \in Range(s_direct_index)

\* The result d1, d2, d3 has been printed as the lines of d1 and d3: d2 has
\* no record.
C16_Witness ==
    /\ pc = "printed"
    /\ result = <<d1, d2, d3>>
    /\ output = [nothing |-> FALSE,
                 lines   |-> << [doc_id |-> d1, title |-> <<65>>, url |-> <<117>>],
                               [doc_id |-> d3, title |-> <<66>>, url |-> <<118>>] >>]

\* C17: neither index file is written while the corpus is being read, a run
\* that could not open the corpus writes neither file, and a run that has
\* ended has written both files or neither.
C17_AllOrNothing ==
    /\ pc \in {"start", "read_corpus", "exit1"} =>
          (~direct_file.written /\ ~inverted_file.written)
    /\ pc \in {"exit0", "crashed"} => (direct_file.written <=> inverted_file.written)

\* The searcher is in its query loop.
InQueryLoop == pc \in {"read_query", "eval", "print", "printed"}

\* C18: in the query loop no step changes the inverted index or the direct
\* index; every query starts with an empty stack; the result boolean_search
\* returns is boolean_search of the query line and the index alone, whatever
\* was evaluated and printed before; a blank line changes nothing of the
\* evaluation and prints nothing.
C18_QueryIndependence ==
    /\ [][ InQueryLoop =>
             (s_inverted_index' = s_inverted_index /\ s_direct_index' = s_direct_index) ]_vars
    /\ [][ (pc = "read_query" /\ pc' = "eval") => stack' = <<>> ]_vars
    /\ [](pc = "print" => result = boolean_search(query, s_inverted_index))
    /\ [][ (pc = "read_query" /\ pc' = "read_query") => UNCHANGED evalVars ]_vars

\* After a query that found nothing, cat bird || has returned d1, d2 on the
\* index of the scenario build.
C18_Witness ==
    /\ pc = "print"
    /\ output.nothing
    /\ s_inverted_index = ScenarioIndex
    /\ query = JoinWords(<<cat, bird, OR>>)
    /\ result = <<d1, d2>>

\* Every postings list of the loaded index is strictly ascending.
SortedIndex ==
    \A k \in 1..Len(s_inverted_index) : StrictlyAscending(s_inverted_index[k].doc_ids)

\* The doc_ids of the postings lists of the operand terms of the query.
OperandIds ==
    UNION { Range(s_inverted_index[k].doc_ids) :
              k \in {j \in 1..Len(s_inverted_index) :
                        \E n \in 1..Len(tokens) :
                            /\ ~IsOperatorToken(tokens[n])
                            /\ tokens[n] = s_inverted_index[j].term} }

\* C19: on an index whose postings lists are all strictly ascending, after
\* every token every list on the stack is strictly ascending and holds only
\* doc_ids of postings lists of operand terms of the query; an operand raises
\* the depth by one or leaves it, an operator applied (two or more lists on
\* the stack) lowers it by exactly one, an operator skipped leaves it.
C19_EvaluatorClosure ==
    /\ []( (pc = "eval" /\ SortedIndex) =>
              \A k \in 1..Len(stack) :
                  /\ StrictlyAscending(stack[k])
                  /\ Range(stack[k]) \subseteq OperandIds )
    /\ [][ (AtToken /\ SortedIndex) =>
             IF IsOperatorToken(tokens[tpos])
             THEN Len(stack') = (IF Len(stack) >= 2 THEN Len(stack) - 1 ELSE Len(stack))
             ELSE Len(stack') \in {Len(stack), Len(stack) + 1}
         ]_vars

\* On a sorted index || has been applied under a third list: the depth fell
\* from 3 to 2 and the union d1, d2, d3 is on top.
C19_Witness ==
    /\ pc = "eval"
    /\ SortedIndex
    /\ lastop.kind = "apply"
    /\ lastop.token = OR
    /\ lastop.depth = 3
    /\ stack = << <<d1, d2>>, <<d1, d2, d3>> >>

====
